---- MODULE Spec2Model ----
(***************************************************************************)
(* NB.no-Downloader: the two variants of the book downloader.              *)
(*   tiled  : src/main.go           (grid discovery + tile compositing)    *)
(*   direct : src/unnamed/part_001  (one request per page, intro pages)    *)
(* One run of main(): NewBook, then downloadBook.  Every action is one     *)
(* iteration of a loop of the program, i.e. one request to the remote      *)
(* image source together with all the handling of its response.            *)
(***************************************************************************)
EXTENDS Integers, Sequences, FiniteSets

\* ---------------------------------------------------------------- bounds
\* Largest last-valid page number of the sources the length search is run on.
MaxN == 230
\* Largest tile grid (rows, columns) of the fault-free tiled runs.
MaxGrid == 3
\* Largest tile edge, in pixels, of the fault-free tiled runs.
MaxTile == 2
\* Largest page count / supplied length of the fault-free whole-book runs.
MaxPages == 3
\* Largest number of existing intro pages of the fault-free whole-book runs.
MaxIntro == 2
\* The same two for the whole-book runs against a faulty source.
RunPages == 1
RunIntro == 2
\* Largest tile grid of the one-page assemblies against a faulty source.
RunGrid == 2
\* The counter of requests to one coordinate saturates here (history only).
MaxTries == 6
\* Last valid page of the source the length search is run on with faults.
FaultyN == 210

\* ------------------------------------------------------ program constants
\* Book.retry as NewBook sets it and as downloadBook / downloadPage reset it.
DefaultRetry == 2
\* findBookLength: delta := 100, j := 100.
InitialDelta == 100
InitialJ == 100
\* Book.rows and Book.cols as NewBook sets them (main.go 58-59).
InitialRows == -1
InitialCols == -1

VARIABLES
    mode,       \* "tiled" (main.go) or "direct" (part_001)
    src,        \* the remote image source of this run (environment)
    pc,         \* where the program is
    length,     \* Book.length
    rows,       \* Book.rows
    cols,       \* Book.cols
    imgSize,    \* Book.imgSize, <<width, height>>
    retry,      \* Book.retry
    j,          \* findBookLength: cursor
    delta,      \* findBookLength: step
    page,       \* downloadPage: pageNr
    row,        \* downloadPage (tiled): row
    col,        \* downloadPage (tiled): col
    xOffset,    \* downloadPage (tiled): xOffset
    yOffset,    \* downloadPage (tiled): yOffset
    img,        \* downloadPage (tiled): the raster, as its size and the tiles drawn
    introPageNum, \* downloadBook (direct): introPageNum
    files,      \* page ids whose image file exists in the temp folder
    produced,   \* page ids whose image file was written without an error
    pdf,        \* page ids added to the document, in order
    saved,      \* pdf.OutputFileAndClose has been called
    req,        \* history: the last request issued
    resp,       \* history: the response to it
    tries,      \* history: consecutive requests to the coordinate of req
    startRetry, \* history: Book.retry when the first of them was issued
    onlyFail,   \* history: each of them failed with a non-auth fault
    event,      \* history: what the last step did with the response
    assembled,  \* history: page ids downloadBook called downloadPage with
    heads,      \* history: the intro existence probes, in order
    lenCalls,   \* history: number of calls of findBookLength
    probes,     \* history: the probes of findBookLength, in order
    tileReqs,   \* history: number of tile requests of the current page
                \*          (kept only while every body of the page decoded)
    garbled     \* history: a tile body of the current page did not decode

vars == <<mode, src, pc, length, rows, cols, imgSize, retry, j, delta, page,
          row, col, xOffset, yOffset, img, introPageNum, files, produced, pdf,
          saved, req, resp, tries, startRetry, onlyFail, event, assembled,
          heads, lenCalls, probes, tileReqs, garbled>>

\* ------------------------------------------------------------- page ids
\* A page number string: "C1", "C3", "I<n>" or the decimal "<n>".
C1 == <<"C", 1>>
C3 == <<"C", 3>>
IntroPage(n) == <<"I", n>>
PageStr(n) == <<"P", n>>

\* ------------------------------------------------------ the remote source
\* src.N  last valid numbered page      src.K  number of intro pages
\* src.R, src.C  tile grid of a page    src.w, src.h  tile size
\* src.ew, src.eh  width of the last column's tiles, height of the last row's
\* src.flaky  whether requests can fail for other reasons than validity
PageValid(p) ==
    CASE p[1] = "C" -> TRUE
      [] p[1] = "I" -> p[2] >= 1 /\ p[2] <= src.K
      [] OTHER      -> p[2] >= 1 /\ p[2] <= src.N

TileValid(p, r, c) == PageValid(p) /\ r >= 0 /\ r < src.R /\ c >= 0 /\ c < src.C

TileW(c) == IF c = src.C - 1 THEN src.ew ELSE src.w
TileH(r) == IF r = src.R - 1 THEN src.eh ELSE src.h

\* What a request can answer:
\*   "ok"    status 200, body readable and decodable
\*   "bad"   status 200, body unreadable or undecodable (tiled mode decodes)
\*   "err"   transport error: client.Get returns (nil, err)
\*   "s404"  a status that is neither 200 nor 401 nor 403
\*   "s401", "s403"  the two authentication statuses
Failures == {"err", "s404", "s401", "s403"}
Auth == {"s401", "s403"}
Transient == {"err", "s404"}

Responses(valid, body) ==
    IF ~src.flaky
    THEN {IF valid THEN "ok" ELSE "s404"}
    ELSE (IF valid THEN {"ok"} ELSE {})
         \cup (IF valid /\ body THEN {"bad"} ELSE {})
         \cup Failures

\* Outcome of writing a page's image file to the temp folder:
\*   "ok"       the file is created and written
\*   "nofile"   os.Create fails (direct mode: or io.ReadAll of the body)
\*   "partial"  direct mode: the file is created and outFile.Write fails
IoOutcomes ==
    IF ~src.flaky THEN {"ok"}
    ELSE IF mode = "tiled" THEN {"ok", "nofile"}
    ELSE {"ok", "nofile", "partial"}

NoReq == [kind |-> "none", page |-> <<"C", 0>>, row |-> 0, col |-> 0]
Request(k, p, r, c) == [kind |-> k, page |-> p, row |-> r, col |-> c]

\* History of the requests to one coordinate.
Issue(q, r) ==
    /\ req' = q
    /\ resp' = r
    /\ tries' = IF q # req THEN 1
               ELSE IF tries < MaxTries THEN tries + 1 ELSE MaxTries
    /\ startRetry' = IF q = req THEN startRetry ELSE retry
    /\ onlyFail' = ((q = req => onlyFail) /\ r \in Transient)

NoIssue == UNCHANGED <<req, resp, tries, startRetry, onlyFail>>

\* ------------------------------------------------------------------ Init
\* What follows the construction of the Book value: tiled NewBook ends by
\* calling findRowsColsAndImgSize (main.go 103), direct NewBook returns to
\* main, which calls downloadBook (part_001 48-61).
EntryWithoutDiscovery(m) == "downloadBook"
Entry(m) == IF m = "tiled" THEN "findRows" ELSE "downloadBook"

\* The state after NewBook has built the Book value (main.go 55-73,
\* part_001 48-61) for the command line's -length, before any request.
InitWith(modes, Ns, Ks, Gs, Ts, Ls, flaky) ==
    /\ mode \in modes
    /\ \E n \in Ns, k \in Ks, gr \in Gs, gc \in Gs, tw \in Ts, th \in Ts :
         \E e1 \in 1..tw, e2 \in 1..th :
           src = [N |-> n,
                  K |-> IF mode = "direct" THEN k ELSE 0,
                  R |-> IF mode = "tiled" THEN gr ELSE 1,
                  C |-> IF mode = "tiled" THEN gc ELSE 1,
                  w |-> IF mode = "tiled" THEN tw ELSE 1,
                  h |-> IF mode = "tiled" THEN th ELSE 1,
                  ew |-> IF mode = "tiled" THEN e1 ELSE 1,
                  eh |-> IF mode = "tiled" THEN e2 ELSE 1,
                  flaky |-> flaky]
    /\ length \in Ls
    /\ pc = Entry(mode)
    /\ rows = InitialRows
    /\ cols = InitialCols
    /\ imgSize = <<0, 0>>
    /\ retry = DefaultRetry
    /\ j = 0
    /\ delta = 0
    /\ page = <<"C", 0>>
    /\ row = 0
    /\ col = 0
    /\ xOffset = 0
    /\ yOffset = 0
    /\ img = [size |-> <<0, 0>>, tiles |-> {}]
    /\ introPageNum = 1
    /\ files = {}
    /\ produced = {}
    /\ pdf = <<>>
    /\ saved = FALSE
    /\ req = NoReq
    /\ resp = "none"
    /\ tries = 0
    /\ startRetry = DefaultRetry
    /\ onlyFail = FALSE
    /\ event = "none"
    /\ assembled = <<>>
    /\ heads = <<>>
    /\ lenCalls = 0
    /\ probes = <<>>
    /\ tileReqs = 0
    /\ garbled = FALSE

\* ------------------------------------------------- findRowsColsAndImgSize
\* b.imgSize[1] += bounds.Dy() (main.go 315).
GrowHeightAsWidth(size, h) == <<size[1] + h, size[2]>>
GrowHeight(size, h) == <<size[1], size[2] + h>>

\* b.imgSize[0] += bounds.Dx() (main.go 341).
GrowWidth(size, w) == <<size[1] + w, size[2]>>

\* A probe that lets its loop go on: status 200 with a body that is read and
\* decoded (main.go 299-312, 325-338); anything else breaks the loop.
ProbeOkOrUndecodable(r) == r \in {"ok", "bad"}
ProbeOk(r) == r = "ok"

\* One iteration of the "Find rows" loop (main.go 293-316).
FindRows ==
    /\ pc = "findRows"
    /\ \E r \in Responses(TileValid(PageStr(1), rows + 1, 0), TRUE) :
         /\ Issue(Request("grid", PageStr(1), rows + 1, 0), r)
         /\ rows' = rows + 1
         /\ IF ProbeOk(r)
            THEN /\ imgSize' = GrowHeight(imgSize, TileH(rows + 1))
                 /\ pc' = "findRows"
                 /\ event' = "ok"
            ELSE /\ imgSize' = imgSize
                 /\ pc' = "findCols"
                 /\ event' = "break"
    /\ UNCHANGED <<mode, src, length, cols, retry, j, delta, page, row, col,
                   xOffset, yOffset, img, introPageNum, files, produced, pdf,
                   saved, assembled, heads, lenCalls,
                   probes, tileReqs, garbled>>

\* One iteration of the "Find columns" loop (main.go 319-342); when it
\* breaks NewBook returns and main calls downloadBook.
FindCols ==
    /\ pc = "findCols"
    /\ \E r \in Responses(TileValid(PageStr(1), 0, cols + 1), TRUE) :
         /\ Issue(Request("grid", PageStr(1), 0, cols + 1), r)
         /\ cols' = cols + 1
         /\ IF ProbeOk(r)
            THEN /\ imgSize' = GrowWidth(imgSize, TileW(cols + 1))
                 /\ pc' = "findCols"
                 /\ event' = "ok"
            ELSE /\ imgSize' = imgSize
                 /\ pc' = "downloadBook"
                 /\ event' = "break"
    /\ UNCHANGED <<mode, src, length, rows, retry, j, delta, page, row, col,
                   xOffset, yOffset, img, introPageNum, files, produced, pdf,
                   saved, assembled, heads, lenCalls,
                   probes, tileReqs, garbled>>

\* ------------------------------------------------------------ downloadBook
\* The test that sends downloadBook to findBookLength (main.go 225,
\* part_001 208).
LengthNotSpecifiedOrOne(l) == l <= 1
LengthNotSpecified(l) == l = 0

\* The head of downloadBook (main.go 221-232, part_001 204-215): the length
\* is searched for when none was supplied, else the front cover is next.
DownloadBookStart ==
    /\ pc = "downloadBook"
    /\ IF LengthNotSpecified(length)
       THEN /\ pc' = "findBookLength"
            /\ j' = InitialJ
            /\ delta' = InitialDelta
            /\ lenCalls' = lenCalls + 1
            /\ page' = page
       ELSE /\ pc' = "downloadPage"
            /\ page' = C1
            /\ UNCHANGED <<j, delta, lenCalls>>
    /\ event' = "none"
    /\ NoIssue
    /\ UNCHANGED <<mode, src, length, rows, cols, imgSize, retry, row, col,
                   xOffset, yOffset, img, introPageNum, files, produced, pdf,
                   saved, assembled, heads,
                   probes, tileReqs, garbled>>

\* --------------------------------------------------------- findBookLength
\* The step after a failed probe (main.go 208-211, part_001 191-194).
ContractByTwo(d) == IF d \div 2 < 1 THEN 1 ELSE d \div 2
Contract(d) == IF d \div 10 < 1 THEN 1 ELSE d \div 10

\* The cursor goes back to where it was before the failed probe's step
\* (main.go 207, part_001 190).
StepBackNone(jj, d) == jj
StepBack(jj, d) == jj - d

\* The result once a probe fails at step 1 (main.go 205, part_001 188).
LastValidOffByOne(jj) == jj
LastValid(jj) == jj - 1

\* One iteration of the loop (main.go 197-217, part_001 180-200): probe page
\* j (tile (0,0) of it in tiled mode); the body of a 200 is not read.
FindBookLength ==
    /\ pc = "findBookLength"
    /\ \E r \in Responses(TileValid(PageStr(j), 0, 0), TRUE) :
         /\ Issue(Request("len", PageStr(j), 0, 0), r)
         /\ probes' = Append(probes, [j |-> j, delta |-> delta,
                                      ok |-> r \notin Failures])
         /\ IF r \in Failures
            THEN IF delta = 1
                 THEN /\ length' = LastValid(j)
                      /\ pc' = "downloadPage"
                      /\ page' = C1
                      /\ event' = "return"
                      /\ UNCHANGED <<j, delta>>
                 ELSE /\ j' = StepBack(j, delta) + Contract(delta)
                      /\ delta' = Contract(delta)
                      /\ event' = "contract"
                      /\ UNCHANGED <<length, pc, page>>
            ELSE /\ j' = j + delta
                 /\ event' = "ok"
                 /\ UNCHANGED <<length, pc, page, delta>>
    /\ UNCHANGED <<mode, src, rows, cols, imgSize, retry, row, col, xOffset,
                   yOffset, img, introPageNum, files, produced, pdf, saved, assembled,
                   heads, lenCalls,
                   tileReqs, garbled>>

\* ------------------------------------------- downloadBook: the page walk
\* The numbered pages "1" .. "n" as downloadBook's loops visit them.
Pages(n) == [i \in 1..n |-> PageStr(i)]
Intros(n) == [i \in 1..n |-> IntroPage(i)]

\* The page after the intro pages (part_001 242-249) and after the front
\* cover in tiled mode (main.go 240-256): page 1, or the back cover when the
\* loop over the numbered pages runs zero times.
FirstNumberedNone == C3
FirstNumbered == IF length >= 1 THEN PageStr(1) ELSE C3

\* The page after numbered page n (main.go 241, part_001 243).
AfterNumberedShort(n) == IF n + 1 < length THEN PageStr(n + 1) ELSE C3
AfterNumbered(n) == IF n + 1 <= length THEN PageStr(n + 1) ELSE C3

\* introPageNum++ (part_001 239).
NextIntroSame(n) == n
NextIntro(n) == n + 1

\* The retry test of both downloadPage (main.go 139, part_001 110).
CanRetryOnceMore(b) == b >= -1
CanRetry(b) == b >= 0

\* b.retry-- (main.go 141, part_001 112).
SpendTwo(b) == b - 2
Spend(b) == b - 1

\* The status on which tiled downloadPage exits the process (main.go 134).
IsFatal(r) == r = "s401"

\* downloadBook calls downloadPage(page): tiled mode allocates the raster
\* and enters the loops (main.go 117-125); direct mode is about to issue the
\* page's request (part_001 93-99).
CallDownloadPage ==
    /\ pc = "downloadPage"
    /\ assembled' = Append(assembled, page)
    /\ tileReqs' = 0
    /\ garbled' = FALSE
    /\ IF mode = "tiled"
       THEN /\ img' = [size |-> imgSize, tiles |-> {}]
            /\ xOffset' = 0
            /\ yOffset' = 0
            /\ row' = 0
            /\ col' = 0
            /\ pc' = IF rows > 0 /\ cols > 0 THEN "tile" ELSE "savePage"
       ELSE /\ pc' = "fetch"
            /\ UNCHANGED <<img, xOffset, yOffset, row, col>>
    /\ event' = "call"
    /\ NoIssue
    /\ UNCHANGED <<mode, src, length, rows, cols, imgSize, retry, j, delta,
                   page, introPageNum, files, produced, pdf, saved, heads,
                   lenCalls,
                   probes>>

\* ------------------------------------------------------ downloadPage, tiled
\* Where draw.Draw puts the tile fetched for (row, col) (main.go 164-166).
Paste(r, c, x, y) ==
    [row |-> r, col |-> c, x |-> x, y |-> y, w |-> TileW(c), h |-> TileH(r)]

\* xOffset and yOffset after a tile was drawn (main.go 168-174).
XAfterNoReset(c, x, w) == x + w
XAfter(c, x, w) == IF c = cols - 1 THEN 0 ELSE x + w
YAfter(c, y, h) == IF c = cols - 1 THEN y + h ELSE y

\* col++ and the two loop heads (main.go 123-125, 176): the next coordinate,
\* or the end of the loops.
Advance ==
    IF col + 1 < cols
    THEN /\ col' = col + 1
         /\ UNCHANGED <<row, pc>>
    ELSE IF row + 1 < rows
         THEN /\ row' = row + 1
              /\ col' = 0
              /\ pc' = pc
         ELSE /\ pc' = "savePage"
              /\ UNCHANGED <<row, col>>

\* A tile given up with the budget exhausted (main.go 143-145): nothing but
\* a message, then col++ at line 176 like after any other tile.
GiveUpAbandon == pc' = "savePage" /\ UNCHANGED <<row, col>>
GiveUp == Advance

\* One iteration of the inner loop (main.go 125-177): request tile
\* (row, col) of the page and handle the response.
TileStep ==
    /\ pc = "tile"
    /\ \E r \in Responses(TileValid(page, row, col), TRUE) :
         /\ Issue(Request("tile", page, row, col), r)
         /\ garbled' = (garbled \/ r = "bad")
         /\ tileReqs' = IF garbled \/ r = "bad" THEN 0 ELSE tileReqs + 1
         /\ CASE r \in Failures /\ IsFatal(r) ->
                   /\ pc' = "exit"
                   /\ event' = "exit"
                   /\ UNCHANGED <<retry, row, col, xOffset, yOffset, img>>
              [] r \in Failures /\ ~IsFatal(r) /\ CanRetry(retry) ->
                   /\ retry' = Spend(retry)
                   /\ event' = "retry"
                   /\ UNCHANGED <<pc, row, col, xOffset, yOffset, img>>
              [] r \in Failures /\ ~IsFatal(r) /\ ~CanRetry(retry) ->
                   /\ event' = "giveup"
                   /\ GiveUp
                   /\ UNCHANGED <<retry, xOffset, yOffset, img>>
              [] r = "bad" ->
                   /\ event' = "continue"
                   /\ UNCHANGED <<pc, retry, row, col, xOffset, yOffset, img>>
              [] OTHER ->
                   /\ img' = [img EXCEPT !.tiles =
                                 @ \cup {Paste(row, col, xOffset, yOffset)}]
                   /\ xOffset' = XAfter(col, xOffset, TileW(col))
                   /\ yOffset' = YAfter(col, yOffset, TileH(row))
                   /\ event' = "ok"
                   /\ Advance
                   /\ retry' = retry
    /\ UNCHANGED <<mode, src, length, rows, cols, imgSize, j, delta, page,
                   introPageNum, files, produced, pdf, saved, assembled,
                   heads, lenCalls,
                   probes>>

\* The end of tiled downloadPage (main.go 180-189) and downloadBook up to
\* its next call of downloadPage (main.go 236-266): the raster is written to
\* <page>.jpg unless os.Create fails; after C1 and after each numbered page
\* the budget is reset; C1 is added to the document at once, the numbered
\* pages after the last of them, C3 after its assembly; then the document
\* is written.
SavePage ==
    /\ pc = "savePage"
    /\ \E io \in IoOutcomes :
         /\ files' = IF io = "nofile" THEN files ELSE files \cup {page}
         /\ produced' = IF io = "ok" THEN produced \cup {page} ELSE produced
    /\ IF page = C3
       THEN /\ pdf' = Append(pdf, C3)
            /\ saved' = TRUE
            /\ pc' = "done"
            /\ UNCHANGED <<retry, page>>
       ELSE /\ retry' = DefaultRetry
            /\ pc' = "downloadPage"
            /\ page' = IF page = C1 THEN FirstNumbered
                       ELSE AfterNumbered(page[2])
            /\ pdf' = IF page = C1 THEN Append(pdf, C1)
                      ELSE IF page[2] + 1 <= length THEN pdf
                      ELSE pdf \o Pages(length)
            /\ saved' = saved
    /\ event' = "saved"
    /\ NoIssue
    /\ UNCHANGED <<mode, src, length, rows, cols, imgSize, j, delta, row, col,
                   xOffset, yOffset, img, introPageNum, assembled, heads, lenCalls,
                   probes, tileReqs, garbled>>

\* ----------------------------------------------------- downloadPage, direct
\* Where downloadBook goes on when downloadPage(page) has returned
\* (part_001 217-249): the intro probe after C1 and after every intro page,
\* the next numbered page, the back cover, the document.
Return ==
    CASE page = C1 ->
           /\ pc' = "introProbe"
           /\ UNCHANGED <<page, introPageNum>>
      [] page[1] = "I" ->
           /\ pc' = "introProbe"
           /\ introPageNum' = NextIntro(introPageNum)
           /\ page' = page
      [] page[1] = "P" ->
           /\ pc' = "downloadPage"
           /\ page' = AfterNumbered(page[2])
           /\ introPageNum' = introPageNum
      [] OTHER ->
           /\ pc' = "createPDF"
           /\ UNCHANGED <<page, introPageNum>>

\* One request of direct downloadPage and the handling of its response
\* (part_001 93-148).  A failed attempt with budget left calls downloadPage
\* again, which issues the next request; every frame of that recursion only
\* closes its response and returns.  A transport error leaves resp nil, and
\* line 101 reads resp.StatusCode: the process panics.
FetchPage ==
    /\ pc = "fetch"
    /\ \E r \in Responses(PageValid(page), FALSE), io \in IoOutcomes :
         /\ Issue(Request("page", page, 0, 0), r)
         /\ CASE r = "err" ->
                   /\ pc' = "panic"
                   /\ event' = "panic"
                   /\ UNCHANGED <<retry, page, introPageNum, files, produced>>
              [] r \in Failures \ {"err"} /\ CanRetry(retry) ->
                   /\ retry' = Spend(retry)
                   /\ event' = "retry"
                   /\ UNCHANGED <<pc, page, introPageNum, files, produced>>
              [] r \in Failures \ {"err"} /\ ~CanRetry(retry) ->
                   /\ event' = "giveup"
                   /\ Return
                   /\ UNCHANGED <<retry, files, produced>>
              [] OTHER ->
                   /\ files' = IF io = "nofile" THEN files
                               ELSE files \cup {page}
                   /\ produced' = IF io = "ok" THEN produced \cup {page}
                                  ELSE produced
                   /\ retry' = IF io = "ok" THEN DefaultRetry ELSE retry
                   /\ event' = IF io = "ok" THEN "ok" ELSE "ioerr"
                   /\ Return
    /\ UNCHANGED <<mode, src, length, rows, cols, imgSize, j, delta, row, col,
                   xOffset, yOffset, img, pdf, saved, assembled, heads, lenCalls,
                   probes, tileReqs, garbled>>

\* One iteration of the intro loop up to its call of downloadPage
\* (part_001 221-238): the HEAD request for I<introPageNum>.
IntroProbe ==
    /\ pc = "introProbe"
    /\ \E r \in Responses(PageValid(IntroPage(introPageNum)), FALSE) :
         /\ Issue(Request("head", IntroPage(introPageNum), 0, 0), r)
         /\ heads' = Append(heads, [n |-> introPageNum, ok |-> r \notin Failures])
         /\ IF r \in Failures
            THEN /\ page' = FirstNumbered
                 /\ event' = "break"
            ELSE /\ page' = IntroPage(introPageNum)
                 /\ event' = "exists"
    /\ pc' = "downloadPage"
    /\ UNCHANGED <<mode, src, length, rows, cols, imgSize, retry, j, delta,
                   row, col, xOffset, yOffset, img, introPageNum, files,
                   produced, pdf, saved, assembled, lenCalls,
                   probes, tileReqs, garbled>>

\* The pages of the walk, in the order the document receives them
\* (part_001 254-286).
Walk == <<C1>> \o Intros(introPageNum - 1) \o Pages(length) \o <<C3>>

\* os.Stat finds the page's file (part_001 256, 265, 275, 283).
HasFile(p) == p \in files

\* The tail of direct downloadBook (part_001 251-294): every page of the
\* walk whose file exists is added, then the document is written.
CreatePDF ==
    /\ pc = "createPDF"
    /\ pdf' = SelectSeq(Walk, HasFile)
    /\ saved' = TRUE
    /\ pc' = "done"
    /\ event' = "saved"
    /\ NoIssue
    /\ UNCHANGED <<mode, src, length, rows, cols, imgSize, retry, j, delta,
                   page, row, col, xOffset, yOffset, img, introPageNum, files,
                   produced, assembled, heads, lenCalls,
                   probes, tileReqs, garbled>>

\* --------------------------------------------------------- specifications
Modes == {"tiled", "direct"}

Next ==
    \/ FindRows
    \/ FindCols
    \/ DownloadBookStart
    \/ FindBookLength
    \/ CallDownloadPage
    \/ TileStep
    \/ SavePage
    \/ FetchPage
    \/ IntroProbe
    \/ CreatePDF

\* Whole-book runs against a faulty source with a 1 x 1 grid: any request
\* can fail, any file write too.
Init ==
    InitWith(Modes, 0..RunPages, 0..RunIntro, {1}, {1}, 0..RunPages, TRUE)

Spec == Init /\ [][Next]_vars

\* Tiled discovery and the assembly of the front cover against a faulty
\* source, up to the point where the raster is complete.
InitPage ==
    InitWith({"tiled"}, {1}, {0}, 1..RunGrid, {1, MaxTile}, {1}, TRUE)

NextPage ==
    \/ FindRows
    \/ FindCols
    \/ DownloadBookStart
    \/ CallDownloadPage
    \/ TileStep

SpecPage == InitPage /\ [][NextPage]_vars

\* Whole-book runs against a fault-free source with a 1 x 1 grid.
InitOk ==
    InitWith(Modes, 0..MaxPages, 0..MaxIntro, {1}, {1}, 0..MaxPages, FALSE)

SpecOk == InitOk /\ [][Next]_vars

\* Tiled runs of a one-page book against a fault-free source.
InitGrid ==
    InitWith({"tiled"}, {1}, {0}, 1..MaxGrid, 1..MaxTile, {1}, FALSE)

NextGrid ==
    \/ FindRows
    \/ FindCols
    \/ DownloadBookStart
    \/ CallDownloadPage
    \/ TileStep
    \/ SavePage

SpecGrid == InitGrid /\ [][NextGrid]_vars

\* ------------------------------------------------- the length search alone
InitLen == InitWith(Modes, 0..MaxN, {0}, {1}, {1}, {0}, FALSE)

NextLen == FindRows \/ FindCols \/ DownloadBookStart \/ FindBookLength

SpecLen == InitLen /\ [][NextLen]_vars

\* The program is sequential and never waits: while the search runs, its
\* next probe is always issued and answered.
FairSpecLen == SpecLen /\ WF_vars(NextLen)

\* The length search against a source whose valid pages can fail at any
\* probe, so that the answers to the probes are not monotonic in the page.
InitLenFaulty == InitWith(Modes, {FaultyN}, {0}, {1}, {1}, {0}, TRUE)

SpecLenFaulty == InitLenFaulty /\ [][NextLen]_vars

\* ------------------------------------------------------------------ claims
\* Sum of the widths of the tiles of columns 0 .. n-1 of the source, and of
\* the heights of the tiles of rows 0 .. n-1.
RECURSIVE SumW(_)
SumW(n) == IF n <= 0 THEN 0 ELSE SumW(n - 1) + TileW(n - 1)
RECURSIVE SumH(_)
SumH(n) == IF n <= 0 THEN 0 ELSE SumH(n - 1) + TileH(n - 1)

\* C1: against a source whose probe succeeds exactly for pages 1..N,
\* findBookLength (both variants) returns exactly N.
C1_LengthIsLastValid ==
    (req.kind = "len" /\ event = "return") => length = src.N

\* C1 witness: the search has returned for a book of more than 200 pages
\* (two forward steps of 100, then both contractions).
C1_Witness ==
    /\ req.kind = "len"
    /\ event = "return"
    /\ src.N > 2 * InitialJ
    /\ length = src.N

\* C1 witness of the short book: the first probe, at 100, fails.
C1_WitnessShort ==
    /\ req.kind = "len"
    /\ event = "return"
    /\ src.N >= 1
    /\ src.N < InitialJ
    /\ length = src.N

\* C2: against a source whose tile request succeeds exactly when row < R and
\* col < C, discovery ends with rows = R, cols = C, page height the sum of
\* the heights of the R tiles of column 0 and page width the sum of the
\* widths of the C tiles of row 0.
C2_GridDiscovered ==
    pc \notin {"findRows", "findCols"} =>
        /\ rows = src.R
        /\ cols = src.C
        /\ imgSize = <<SumW(src.C), SumH(src.R)>>

\* C2 witness: discovery has ended on a grid of several rows and columns
\* whose last row and column are smaller than the others.
C2_Witness ==
    /\ pc = "downloadBook"
    /\ src.R >= 2
    /\ src.C >= 2
    /\ src.R # src.C
    /\ src.ew < src.w
    /\ src.eh < src.h
    /\ rows = src.R
    /\ cols = src.C

\* C3: on a grid of R > 0 rows and C > 0 columns of uniform tile size w x h
\* whose every tile fetch succeeds, the raster is C*w wide and R*h high and
\* tile (r, c) is drawn at horizontal offset c*w and vertical offset r*h.
C3_UniformAssembly ==
    (pc = "savePage" /\ src.ew = src.w /\ src.eh = src.h) =>
        /\ img.size = <<cols * src.w, rows * src.h>>
        /\ img.tiles = {[row |-> r, col |-> c, x |-> c * src.w, y |-> r * src.h,
                         w |-> src.w, h |-> src.h] :
                            r \in 0..(rows - 1), c \in 0..(cols - 1)}

\* C3 witness: a page of a uniform grid of several rows and columns of
\* non-square tiles has been assembled.
C3_Witness ==
    /\ pc = "savePage"
    /\ src.ew = src.w
    /\ src.eh = src.h
    /\ src.w # src.h
    /\ rows >= 2
    /\ cols >= 3
    /\ Cardinality(img.tiles) = rows * cols

\* C4: from the default budget of 2, a page (direct) or tile (tiled) whose
\* fetch fails with a non-auth fault on every attempt is requested exactly
\* budget + 1 = 3 times before it is given up.
C4_ThreeRequests ==
    (event = "giveup" /\ onlyFail /\ startRetry = DefaultRetry) =>
        tries = DefaultRetry + 1

\* C5: at every call of downloadPage by downloadBook the retry budget is at
\* its default 2.
C5_BudgetAtPageStart == pc = "downloadPage" => retry = DefaultRetry

\* C6: once a request is answered 401 or 403 the run terminates at once (no
\* further request is issued).
C6_AuthTerminates == resp \in Auth => pc = "exit"

\* C7: a fetch that fails with a transient fault (transport error, status
\* other than 200, 401, 403) never aborts the run.
C7_TransientNeverAborts == resp \in Transient => pc \notin {"panic", "exit"}

IsIntro(p) == p[1] = "I"
OkHeads == Len(SelectSeq(heads, LAMBDA hd : hd.ok))

\* C8: the intro probes go I1, I2, ... and stop at the first that fails; if
\* they succeed for I1..Ik and fail for I(k+1), exactly I1..Ik are assembled,
\* in that order, and no intro index above k+1 is probed or fetched.
C8_IntroDiscovery ==
    /\ \A i \in DOMAIN heads :
         /\ heads[i].n = i
         /\ i < Len(heads) => heads[i].ok
    /\ SelectSeq(assembled, IsIntro) \in {Intros(OkHeads), Intros(OkHeads - 1)}
    /\ (heads # <<>> /\ ~heads[Len(heads)].ok) =>
          SelectSeq(assembled, IsIntro) = Intros(Len(heads) - 1)

\* C8 witness: the probes of I1 and I2 succeeded, the probe of I3 failed and
\* the two intro pages were assembled.
C8_Witness ==
    /\ Len(heads) = 3
    /\ heads[2].ok
    /\ ~heads[3].ok
    /\ SelectSeq(assembled, IsIntro) = <<IntroPage(1), IntroPage(2)>>
    /\ pc = "done"

\* C9: direct mode, supplied length L >= 1, no intro page, every page fetch
\* succeeding: the document receives exactly the L + 2 pages C1, 1..L, C3.
C9_PageOrder ==
    (/\ mode = "direct"
     /\ pc = "done"
     /\ lenCalls = 0
     /\ length >= 1
     /\ length <= src.N
     /\ src.K = 0) =>
        /\ pdf = <<C1>> \o Pages(length) \o <<C3>>
        /\ Len(pdf) = length + 2

\* C9 witness: the run of the three-page book has written its document.
C9_Witness ==
    /\ mode = "direct"
    /\ pc = "done"
    /\ saved
    /\ lenCalls = 0
    /\ length = 3
    /\ src.N >= 3
    /\ src.K = 0
    /\ pdf = <<C1, PageStr(1), PageStr(2), PageStr(3), C3>>

\* C10: when no page file was successfully produced, the document-write
\* step is not executed.
C10_NoPagesNoDocument == saved => produced # {}

IsNumbered(p) == p[1] = "P"

\* C11: findBookLength is called exactly once, before any page is
\* assembled, when the supplied length is 0, and never when the supplied
\* length is above 0; in the latter case exactly the numbered pages
\* 1..length are assembled.
C11_LengthFinderOnce ==
    /\ [](lenCalls <= 1)
    /\ []((assembled # <<>> /\ lenCalls = 0) => length > 0)
    /\ [][lenCalls' # lenCalls => (length = 0 /\ assembled = <<>>)]_vars
    /\ []((pc = "done" /\ lenCalls = 0) =>
            SelectSeq(assembled, IsNumbered) = Pages(length))

\* C11 witness: a run with a supplied length has ended without a call of
\* findBookLength, its numbered pages assembled.
C11_Witness ==
    /\ pc = "done"
    /\ lenCalls = 0
    /\ length >= 1
    /\ SelectSeq(assembled, IsNumbered) = Pages(length)

IsPrefix(s, t) == Len(s) <= Len(t) /\ \A i \in DOMAIN s : s[i] = t[i]

\* The full page sequence of a run with k intro pages.
Order(k) == <<C1>> \o Intros(k) \o Pages(length) \o <<C3>>

C13_UndecodableBounded ==
    req.kind = "tile" => tries <= startRetry + 2

\* C14: in tiled downloadPage, once a failing tile is given up with the
\* retry budget exhausted, the page is abandoned: no further tile of that
\* page is requested, and the tiles pasted so far stay in the raster where
\* they were pasted.
C14_PageAbandoned ==
    [][/\ (req.kind = "tile" /\ event = "giveup") =>
             ~(req' # req /\ req'.kind = "tile" /\ req'.page = req.page)
       /\ (pc = "tile" => img.tiles \subseteq img'.tiles)]_vars

\* C15: in tiled downloadPage, after a tile fetch fails with a transport
\* error or a status that is neither 200 nor 401 nor 403 while budget
\* remains, the budget is one lower and the very next request is for the
\* same page and the same (row, col); the column index neither skips that
\* tile nor goes back past it.
C15_SameTileRetried ==
    [][/\ (pc = "tile" /\ resp' \in Transient /\ retry >= 0) =>
             /\ retry' = retry - 1
             /\ pc' = "tile"
             /\ <<page', row', col'>> = <<page, row, col>>
       /\ (req.kind = "tile" /\ resp \in Transient /\ event = "retry") =>
             req' = req]_vars

\* C15 witness: the tile in the last column of the last row of a grid of
\* several rows and columns has failed twice and is requested a third time.
C15_Witness ==
    /\ pc = "tile"
    /\ req = Request("tile", page, row, col)
    /\ rows >= 2
    /\ cols >= 2
    /\ row = rows - 1
    /\ col = cols - 1
    /\ event = "retry"
    /\ resp \in Transient
    /\ tries = 3
    /\ retry = startRetry - 2

\* C16: in every execution of tiled downloadPage, also with failed or
\* given-up tiles, when a row r is started (before the first request for
\* its column 0) the horizontal offset is 0 and the vertical offset is the
\* sum of the tile heights of rows 0..r-1; the vertical offset changes only
\* when the last column of a row completes.
C16_OffsetsAtRowStart ==
    /\ []((pc = "tile" /\ col = 0 /\ req # Request("tile", page, row, 0)) =>
            (xOffset = 0 /\ yOffset = SumH(row)))
    /\ [][(pc = "tile" /\ yOffset' # yOffset) =>
            (col = cols - 1 /\ event' = "ok")]_vars

\* C17: a 401 or 403 answer to a tile fetch (tiled downloadPage) or a page
\* fetch (direct downloadPage) never decrements the retry budget: b.retry
\* is the same after the handling of such a response as before it.
C17_AuthKeepsBudget ==
    [][(pc \in {"tile", "fetch"} /\ resp' \in Auth) => retry' = retry]_vars

\* Where the program is during findRowsColsAndImgSize.
Discovery == {"findRows", "findCols"}

\* C18: in tiled mode rows, cols and imgSize are written only by grid
\* discovery, which runs once, in NewBook, and is complete before the first
\* page assembly; findBookLength, downloadPage and downloadBook leave the
\* three unchanged for the rest of the run.
C18_GridResolvedOnce ==
    /\ []((mode = "tiled" /\ pc \notin Discovery) => (rows >= 0 /\ cols >= 0))
    /\ []((mode = "tiled" /\ assembled # <<>>) => pc \notin Discovery)
    /\ [][(mode = "tiled" /\ pc \notin Discovery) =>
            (pc' \notin Discovery /\ UNCHANGED <<rows, cols, imgSize>>)]_vars

\* C18 witness: a tiled run that searched the length and assembled its
\* pages has ended with the grid discovery resolved.
C18_Witness ==
    /\ mode = "tiled"
    /\ pc = "done"
    /\ lenCalls = 1
    /\ length >= 1
    /\ Len(assembled) >= 3
    /\ rows >= 1
    /\ cols >= 1
    /\ imgSize = <<src.w, src.h>>

\* C19: grid discovery never retries: in each dimension the first failed
\* probe (transport error, status other than 200, undecodable body) ends
\* that dimension's loop, every probe of a loop is at a higher index than
\* the one before, so no coordinate is requested twice within a loop, and
\* the retry budget is unchanged by discovery.
C19_DiscoveryNeverRetries ==
    [][(pc \in Discovery) =>
         /\ retry' = retry
         /\ (resp' # "ok" => pc' # pc)
         /\ (pc = "findRows" =>
                (rows' > rows /\ req' = Request("grid", PageStr(1), rows', 0)))
         /\ (pc = "findCols" =>
                (cols' > cols /\ req' = Request("grid", PageStr(1), 0, cols')))]_vars

\* C19 witness: on a grid of several rows and columns both loops have ended
\* at their second probe, the column loop on an undecodable body, and the
\* budget is still at its default.
C19_Witness ==
    /\ pc = "downloadBook"
    /\ rows = 1
    /\ cols = 1
    /\ src.R >= 2
    /\ src.C >= 2
    /\ req = Request("grid", PageStr(1), 0, 1)
    /\ resp = "bad"
    /\ imgSize = <<src.w, src.h>>
    /\ retry = DefaultRetry

WasProduced(p) == p \in produced

\* C20: in both modes the document is handed a page only if that page's
\* file was successfully produced, in the order C1, intro pages, numbered
\* pages ascending, C3; a page whose file was not produced is skipped and
\* the other pages are handed over all the same.
C20_OnlyProducedPages ==
    /\ \A i \in DOMAIN pdf : WasProduced(pdf[i])
    /\ pc = "done" =>
          \E k \in 0..Len(assembled) :
             pdf = SelectSeq(Order(k), WasProduced)

\* C21: for an arbitrary, also non-monotonic, pattern of probe answers:
\* whenever findBookLength returns L, the step was 1, the last probe was at
\* page L + 1 and failed, and L = 0 or the probe of page L succeeded
\* earlier in the same call.
C21_ResultCharacterised ==
    (req.kind = "len" /\ event = "return") =>
        /\ probes # <<>>
        /\ probes[Len(probes)].delta = 1
        /\ ~probes[Len(probes)].ok
        /\ probes[Len(probes)].j = length + 1
        /\ \/ length = 0
           \/ \E i \in 1..(Len(probes) - 1) :
                 probes[i].j = length /\ probes[i].ok

\* C21 witness: the answers were not monotonic: the first probe, at page
\* 100, failed, and the search has returned a page above 100 whose probe
\* succeeded.
C21_Witness ==
    /\ req.kind = "len"
    /\ event = "return"
    /\ ~probes[1].ok
    /\ probes[1].j = InitialJ
    /\ length > InitialJ
    /\ \E i \in DOMAIN probes : probes[i].j = length /\ probes[i].ok

\* C22: against every source valid exactly for pages 1..N, N >= 0,
\* findBookLength terminates, after at most floor(N / 100) + 21 probes, and
\* its step delta only takes the values 100, 10, 1, in that order.
C22_SearchTerminates ==
    /\ <>(lenCalls = 1 /\ pc # "findBookLength")
    /\ [](Len(probes) <= (src.N \div 100) + 21)
    /\ [](pc = "findBookLength" => delta \in {100, 10, 1})
    /\ [][(pc = "findBookLength" /\ delta' # delta) =>
            <<delta, delta'>> \in {<<100, 10>>, <<10, 1>>}]_vars

\* C22 witness: the search has returned after exactly floor(N / 100) + 21
\* probes for a book of more than 100 pages, the step having gone from 100
\* over 10 to 1.
C22_Witness ==
    /\ req.kind = "len"
    /\ event = "return"
    /\ src.N > InitialJ
    /\ Len(probes) = (src.N \div 100) + 21
    /\ probes[1].delta = 100
    /\ delta = 1
    /\ \E i \in DOMAIN probes : probes[i].delta = 10

\* C23: in every reachable state of a run, in both modes, b.retry is one
\* of -1, 0, 1, 2: it is never decremented below -1 and never set above 2.
C23_RetryRange == retry \in {-1, 0, 1, 2}

\* C23 witness: a page has been given up with the counter at -1, after the
\* counter went through 2, 1 and 0 on that page.
C23_Witness ==
    /\ event = "giveup"
    /\ retry = -1
    /\ startRetry = DefaultRetry
    /\ tries = 4

\* C24: in tiled mode, when every successful response body decodes, the
\* assembly of one page of a grid of R rows and C columns issues at least
\* R*C and at most R*C + 3 tile requests and ends at the last coordinate:
\* every coordinate is requested, also after the budget is exhausted.
C24_TileRequestCount ==
    (mode = "tiled" /\ pc = "savePage" /\ ~garbled) =>
        /\ tileReqs >= rows * cols
        /\ tileReqs <= rows * cols + 3
        /\ (rows > 0 /\ cols > 0) => (row = rows - 1 /\ col = cols - 1)

\* C24 witness: a page of a 2 x 2 grid has been assembled with 4 + 3
\* requests, the budget exhausted on its first tile and a later tile given
\* up at its only request.
C24_Witness ==
    /\ pc = "savePage"
    /\ ~garbled
    /\ rows = 2
    /\ cols = 2
    /\ tileReqs = rows * cols + 3
    /\ retry = -1
    /\ img.tiles = {Paste(1, 0, 0, 0)}

====
